---- MODULE Spec2Model ----
(***************************************************************************)
(* Model of static/js/app.js: the submit handler of the prediction form,   *)
(* the moving-average helper, the trace/layout composition and the DOM     *)
(* state the handler writes (status, metrics, chart).                      *)
(*                                                                         *)
(* Representation.  A JavaScript number that the page computes is kept as  *)
(* an exact fraction <<numerator, denominator>>, so sum / window is not    *)
(* rounded.  A text built by concatenation is the tuple of its parts.      *)
(* A JSON array element is <<"num", n>> or <<"null", 0>>.  An optional     *)
(* field of a JSON object is [present |-> BOOLEAN, val |-> ...].           *)
(***************************************************************************)
EXTENDS Integers, Sequences, FiniteSets, TLC

VARIABLES
  pc,             \* pc[s]: where the async handler of submit event s stands
  req,            \* req[s]: the form as read by submission s and the body given to fetch
  resp,           \* resp[s]: what the network returned to submission s
  statusDiv,      \* statusDiv.textContent, with the submission that wrote it
  metricsDiv,     \* metricsDiv.textContent, with the submission that wrote it
  chartDiv,       \* the content of the chart container
  rendered,       \* the submissions that have called Plotly.newPlot
  nextId,         \* number of the next submit event
  submitDisabled, \* the disabled property of the form's submit control
  showRangeslider,\* the range-slider display toggle of the page
  maArr,          \* argument arr of a direct call of movingAverage
  maWindow,       \* argument window of that call
  maRes           \* its result, once the call has returned

vars == <<pc, req, resp, statusDiv, metricsDiv, chartDiv, rendered, nextId,
          submitDisabled, showRangeslider, maArr, maWindow, maRes>>

handlerVars == <<pc, req, resp, statusDiv, metricsDiv, chartDiv, rendered,
                 nextId, submitDisabled, showRangeslider>>

maVars == <<maArr, maWindow, maRes>>

----------------------------------------------------------------------------
(* Bounds of the model *)

MaxSubmits == 3      \* submit events in the overlapping-submissions model
MaxLen == 4          \* length of dates / actual / predicted in a response
MaxVal == 2          \* largest number in a response array
MaxFuture == 1       \* length of future_dates / future_preds in a response
MaxFieldLen == 2     \* characters typed into a numeric form field
MaxArrLen == 5       \* length of arr in a direct call of movingAverage
MaxAbs == 1          \* |element| of arr in a direct call of movingAverage
MaxWindow == 3       \* window in a direct call of movingAverage

----------------------------------------------------------------------------
(* Configuration flags *)

USE_SMOOTH_PREDICTED == TRUE
SMOOTH_WINDOW == 3
SHOW_RECENT_MARKERS == TRUE
RECENT_N == 12

----------------------------------------------------------------------------
(* Generic helpers *)

SeqsUpTo(S, n) == UNION {[1..k -> S] : k \in 0..n}

Min(a, b) == IF a < b THEN a ELSE b

\* Array.prototype.slice(-n) for 0 < n
SliceLast(arr, n) ==
  IF n >= Len(arr) THEN arr ELSE SubSeq(arr, Len(arr) - n + 1, Len(arr))

RECURSIVE SumSeq(_)
SumSeq(s) == IF Len(s) = 0 THEN 0 ELSE s[1] + SumSeq(Tail(s))

\* equality of two fractions with positive denominators
FracEq(a, b) == a[1] * b[2] = b[1] * a[2]

----------------------------------------------------------------------------
(* movingAverage *)

\* the loop of movingAverage with the window test off by one (i > window)
RECURSIVE maLoopLate(_, _, _, _, _)
maLoopLate(arr, window, i, sum, res) ==
  IF i >= Len(arr) THEN res
  ELSE LET s1 == sum + arr[i + 1] IN
       IF i > window
       THEN LET s2 == s1 - arr[i - window + 1]
            IN  maLoopLate(arr, window, i + 1, s2, Append(res, <<s2, window>>))
       ELSE maLoopLate(arr, window, i + 1, s1, Append(res, <<s1, i + 1>>))

movingAverageLate(arr, window) ==
  IF Len(arr) = 0 THEN <<>> ELSE maLoopLate(arr, window, 0, 0, <<>>)

\* the for loop: i is the 0-based index, sum the running sum, res the
\* elements written so far (res[i] of the code is res[i + 1] here)
RECURSIVE maLoop(_, _, _, _, _)
maLoop(arr, window, i, sum, res) ==
  IF i >= Len(arr) THEN res
  ELSE LET s1 == sum + arr[i + 1] IN
       IF i >= window
       THEN LET s2 == s1 - arr[i - window + 1]
            IN  maLoop(arr, window, i + 1, s2, Append(res, <<s2, window>>))
       ELSE maLoop(arr, window, i + 1, s1, Append(res, <<s1, i + 1>>))

movingAverage(arr, window) ==
  IF Len(arr) = 0 THEN <<>> ELSE maLoop(arr, window, 0, 0, <<>>)

----------------------------------------------------------------------------
(* JSON values and JavaScript conversions *)

JNum(n) == <<"num", n>>
JNull == <<"null", 0>>

Opt(v) == [present |-> TRUE, val |-> v]
Absent == [present |-> FALSE, val |-> <<>>]

\* x || [] for an optional array field
OrEmpty(o) == IF o.present THEN o.val ELSE <<>>

\* Number(e) for an array element: Number(null) is 0
ToNumber(e) == IF e[1] = "null" THEN 0 ELSE e[2]

\* arr.map(Number)
MapNumber(arr) == [i \in 1..Len(arr) |-> ToNumber(arr[i])]

\* a whole number as the fraction the chart receives
Fracs(arr) == [i \in 1..Len(arr) |-> <<arr[i], 1>>]

NaN == [nan |-> TRUE, n |-> 0]
Int32(n) == [nan |-> FALSE, n |-> n]

IsDigit(c) == c \in {"0", "1", "6"}
DigitVal(c) == IF c = "0" THEN 0 ELSE IF c = "1" THEN 1 ELSE 6

\* the digits at the head of str, read in base 10 from acc
RECURSIVE ReadDigits(_, _)
ReadDigits(str, acc) ==
  IF Len(str) = 0 \/ ~IsDigit(str[1]) THEN acc
  ELSE ReadDigits(Tail(str), 10 * acc + DigitVal(str[1]))

RECURSIVE SkipSpaces(_)
SkipSpaces(str) ==
  IF Len(str) > 0 /\ str[1] = " " THEN SkipSpaces(Tail(str)) ELSE str

\* parseInt(str): leading blanks, an optional sign, then the longest run of
\* digits; NaN when there is no digit
parseInt(str) ==
  LET t == SkipSpaces(str)
      neg == Len(t) > 0 /\ t[1] = "-"
      u == IF Len(t) > 0 /\ t[1] \in {"-", "+"} THEN Tail(t) ELSE t
  IN  IF Len(u) = 0 \/ ~IsDigit(u[1]) THEN NaN
      ELSE IF neg THEN Int32(0 - ReadDigits(u, 0)) ELSE Int32(ReadDigits(u, 0))

\* String.prototype.trim
RECURSIVE TrimEnd(_)
TrimEnd(str) ==
  IF Len(str) > 0 /\ str[Len(str)] = " "
  THEN TrimEnd(SubSeq(str, 1, Len(str) - 1)) ELSE str

Trim(str) == TrimEnd(SkipSpaces(str))

\* JSON.stringify of a number: NaN is written as null
StringifyNumber(v) == IF v.nan THEN JNull ELSE JNum(v.n)

----------------------------------------------------------------------------
(* The form and the request body *)

\* the object given to JSON.stringify as the body of the fetch
RequestBody(f) ==
  [ticker |-> Trim(f.ticker), start |-> f.start, end |-> f.end,
   lookback |-> StringifyNumber(parseInt(f.lookback)),
   epochs |-> StringifyNumber(parseInt(f.epochs)),
   future_days |->
     StringifyNumber(IF Len(f.future_days) = 0 THEN parseInt(<<"0">>)
                     ELSE parseInt(f.future_days))]

FieldChars == {"6", "a", "-"}
FieldTexts == SeqsUpTo(FieldChars, MaxFieldLen)
TickerTexts == {<<>>, <<"A">>, <<" ", "A", " ">>}

AllForms ==
  [ticker : TickerTexts, start : {"2020-01-01"}, end : {"2024-01-01"},
   lookback : FieldTexts, epochs : FieldTexts, future_days : FieldTexts]

PlainForm ==
  [ticker |-> <<"A">>, start |-> "2020-01-01", end |-> "2024-01-01",
   lookback |-> <<"6">>, epochs |-> <<"1">>, future_days |-> <<>>]

NoForm ==
  [ticker |-> <<>>, start |-> "", end |-> "",
   lookback |-> <<>>, epochs |-> <<>>, future_days |-> <<>>]

NoBody ==
  [ticker |-> <<>>, start |-> "", end |-> "",
   lookback |-> JNull, epochs |-> JNull, future_days |-> JNull]

----------------------------------------------------------------------------
(* Responses of POST /api/predict *)

NoData ==
  [ticker |-> "", rmse |-> [present |-> FALSE, val |-> 0],
   dates |-> Absent, actual |-> Absent, predicted |-> Absent,
   future_dates |-> Absent, future_preds |-> Absent]

NoError == [present |-> FALSE, val |-> ""]

\* a body that is not JSON, the JSON text null, or a JSON object
InvalidBody == [kind |-> "invalid", error |-> NoError, data |-> NoData]
NullBody == [kind |-> "null", error |-> NoError, data |-> NoData]
ErrorBody(e) == [kind |-> "object", error |-> e, data |-> NoData]
DataBody(d) == [kind |-> "object", error |-> NoError, data |-> d]

Rejected(msg) ==
  [kind |-> "reject", message |-> msg, ok |-> FALSE, statusText |-> "",
   body |-> InvalidBody]
Http(ok, statusText, body) ==
  [kind |-> "http", message |-> "", ok |-> ok, statusText |-> statusText,
   body |-> body]
NoResponse ==
  [kind |-> "none", message |-> "", ok |-> FALSE, statusText |-> "",
   body |-> InvalidBody]

DateNames == <<"d1", "d2", "d3", "d4", "d5", "d6">>
FutureNames == <<"f1", "f2", "f3">>

Elements == {JNull} \cup {JNum(n) : n \in 1..MaxVal}

\* success bodies: N aligned points, each array possibly missing, and
\* future arrays that are missing, empty or filled
ComposeData ==
  UNION {
    [ticker : {"ABC"}, rmse : {[present |-> TRUE, val |-> 1235]},
     dates : {Absent, Opt(SubSeq(DateNames, 1, n))},
     actual : {Absent, Opt([i \in 1..n |-> JNum(i)])},
     predicted : {Absent} \cup {Opt(q) : q \in [1..n -> Elements]},
     future_dates : {Absent} \cup
        {Opt(SubSeq(FutureNames, 1, m)) : m \in 0..MaxFuture},
     future_preds : {Absent} \cup
        {Opt([j \in 1..m |-> JNum(1)]) : m \in 0..MaxFuture}]
    : n \in 0..MaxLen }

ComposeResponses == {Http(TRUE, "OK", DataBody(d)) : d \in ComposeData}

SmallData ==
  [ticker : {"ABC"},
   rmse : {[present |-> TRUE, val |-> 1235], [present |-> FALSE, val |-> 0]},
   dates : {Opt(<<"d1">>)}, actual : {Opt(<<JNum(1)>>)},
   predicted : {Opt(<<JNum(2)>>)},
   future_dates : {Absent}, future_preds : {Absent}]

ErrorBodies ==
  {InvalidBody, NullBody}
  \cup {ErrorBody(e) : e \in {NoError, [present |-> TRUE, val |-> ""],
                              [present |-> TRUE, val |-> "model failed"]}}

OverlapResponses ==
  {Http(TRUE, "OK", DataBody(d)) : d \in SmallData}
  \cup {Http(TRUE, "OK", b) : b \in {InvalidBody, NullBody}}
  \cup {Http(FALSE, t, b) : t \in {"", "Internal Server Error"}, b \in ErrorBodies}

RejectMessages == {"network down"}

----------------------------------------------------------------------------
(* Texts the handler writes; the dash and the check mark of the page are
   written in ASCII *)

StartingText == <<"Starting request -- model may train for a while...">>
CompleteText == <<"Prediction complete (check mark)">>
EmptyText == <<>>

\* JSON.stringify(err) for the error objects of the model
StringifyErr(err) ==
  IF err.present THEN <<"{\"error\":\"", err.val, "\"}">> ELSE <<"{}">>

\* err.error || resp.statusText || JSON.stringify(err): the empty string is
\* falsy
ErrorMessage(err, statusText) ==
  IF err.present /\ err.val # "" THEN <<err.val>>
  ELSE IF statusText # "" THEN <<statusText>>
  ELSE StringifyErr(err)

ErrorText(err, statusText) == <<"Error: ">> \o ErrorMessage(err, statusText)

\* 'Unexpected error: ' + (err.message || err)
UnexpectedText(msg) == <<"Unexpected error: ", msg>>

NullPropertyMessage == "Cannot read properties of null"
SyntaxErrorMessage == "Unexpected token in JSON"

\* Number(rmse).toFixed(2), rmse given in thousandths; Number(undefined) is NaN
ToFixed2(rmse) ==
  IF ~rmse.present THEN <<"NaN">>
  ELSE LET c == (rmse.val + 5) \div 10 IN <<c \div 100, ".", (c % 100) \div 10, c % 10>>

MetricsText(data) ==
  <<"Ticker: ", data.ticker, "  --  RMSE: ">> \o ToFixed2(data.rmse)

----------------------------------------------------------------------------
(* Traces and layout *)

\* predicted handed on without the smoothing step
RawPredicted(data) == Fracs(MapNumber(OrEmpty(data.predicted)))

\* let predicted = (data.predicted || []).map(Number), smoothed when the flag
\* is set and the array is not empty
SmoothedPredicted(data) ==
  LET predicted == MapNumber(OrEmpty(data.predicted))
  IN  IF USE_SMOOTH_PREDICTED /\ Len(predicted) > 0
      THEN movingAverage(predicted, SMOOTH_WINDOW)
      ELSE Fracs(predicted)

ActualTrace(data) ==
  [name |-> <<"Actual (Test)">>, x |-> OrEmpty(data.dates),
   y |-> Fracs(MapNumber(OrEmpty(data.actual))), mode |-> "lines",
   dash |-> "solid"]

RecentTrace(data) ==
  LET actual == MapNumber(OrEmpty(data.actual))
      n == Min(RECENT_N, Len(actual))
  IN  [name |-> <<"Recent (Markers)">>, x |-> SliceLast(OrEmpty(data.dates), n),
       y |-> Fracs(SliceLast(actual, n)), mode |-> "markers", dash |-> "solid"]

PredictedTrace(data) ==
  [name |-> <<"Predicted (Test)">>, x |-> OrEmpty(data.dates),
   y |-> SmoothedPredicted(data), mode |-> "lines", dash |-> "dash"]

FutureTrace(data) ==
  [name |-> <<"Predicted (Future ", Len(OrEmpty(data.future_dates)), " days)">>,
   x |-> OrEmpty(data.future_dates),
   y |-> Fracs(MapNumber(OrEmpty(data.future_preds))),
   mode |-> "lines+markers", dash |-> "dot"]

\* the traces with the recent markers pushed whatever the length of actual
ComposeTracesUnguarded(data) ==
  <<ActualTrace(data)>>
  \o (IF SHOW_RECENT_MARKERS THEN <<RecentTrace(data)>> ELSE <<>>)
  \o <<PredictedTrace(data)>>
  \o (IF data.future_preds.present /\ data.future_dates.present
      THEN <<FutureTrace(data)>> ELSE <<>>)

\* const traces = []; the four pushes in the order of the code.  An array,
\* empty or not, is truthy: the future trace is pushed when both fields are
\* there
ComposeTraces(data) ==
  <<ActualTrace(data)>>
  \o (IF SHOW_RECENT_MARKERS /\ Len(OrEmpty(data.actual)) > 0
      THEN <<RecentTrace(data)>> ELSE <<>>)
  \o <<PredictedTrace(data)>>
  \o (IF data.future_preds.present /\ data.future_dates.present
      THEN <<FutureTrace(data)>> ELSE <<>>)

\* a layout whose range slider follows the display toggle of the page
LayoutToggled(data) ==
  [title |-> <<data.ticker, " -- Actual vs Predicted (Test + Future)">>,
   hovermode |-> "x unified",
   xaxis |-> [title |-> "Date", type |-> "date",
              rangeslider |-> [visible |-> showRangeslider]],
   yaxis |-> [title |-> "Price", automargin |-> TRUE]]

\* const layout = {...}: the range slider is written visible: true
Layout(data) ==
  [title |-> <<data.ticker, " -- Actual vs Predicted (Test + Future)">>,
   hovermode |-> "x unified",
   xaxis |-> [title |-> "Date", type |-> "date",
              rangeslider |-> [visible |-> TRUE]],
   yaxis |-> [title |-> "Price", automargin |-> TRUE]]

NoLayout ==
  [title |-> <<>>, hovermode |-> "",
   xaxis |-> [title |-> "", type |-> "",
              rangeslider |-> [visible |-> FALSE]],
   yaxis |-> [title |-> "", automargin |-> FALSE]]

\* chartDiv.innerHTML = '' by submission s
ClearedChart(s) ==
  [drawn |-> FALSE, traces |-> <<>>, layout |-> NoLayout, by |-> s,
   toggle |-> TRUE]

\* Plotly.newPlot(chartDiv, traces, layout, config) by submission s; toggle
\* records the display toggle of the page at the time of the call
Plot(s, data) ==
  [drawn |-> TRUE, traces |-> ComposeTraces(data), layout |-> Layout(data),
   by |-> s, toggle |-> showRangeslider]

----------------------------------------------------------------------------
(* The submit handler, one action per run between two awaits *)

Subs == 1..MaxSubmits

Init ==
  /\ pc = [s \in Subs |-> "idle"]
  /\ req = [s \in Subs |-> [form |-> NoForm, body |-> NoBody]]
  /\ resp = [s \in Subs |-> NoResponse]
  /\ statusDiv = [text |-> EmptyText, by |-> 0]
  /\ metricsDiv = [text |-> EmptyText, by |-> 0]
  /\ chartDiv = ClearedChart(0)
  /\ rendered = {}
  /\ nextId = 1
  /\ submitDisabled = FALSE
  /\ showRangeslider = TRUE
  /\ maArr = <<>>
  /\ maWindow = 1
  /\ maRes = [done |-> FALSE, val |-> <<>>]

\* a submit event: the form is read, the status is set and metrics and chart
\* are cleared, and fetch is called.  The browser delivers no submit event
\* from a disabled control; the handler itself tests nothing
Submit(forms, maxSubmits) ==
  /\ nextId <= maxSubmits
  /\ ~submitDisabled
  /\ \E f \in forms :
       req' = [req EXCEPT ![nextId] = [form |-> f, body |-> RequestBody(f)]]
  /\ pc' = [pc EXCEPT ![nextId] = "fetch"]
  /\ statusDiv' = [text |-> StartingText, by |-> nextId]
  /\ metricsDiv' = [text |-> EmptyText, by |-> nextId]
  /\ chartDiv' = ClearedChart(nextId)
  /\ nextId' = nextId + 1
  /\ UNCHANGED <<resp, rendered, submitDisabled, showRangeslider, maVars>>

\* await fetch(...) rejects: the catch block writes the status
FetchReject(s) ==
  /\ pc[s] = "fetch"
  /\ \E msg \in RejectMessages :
       /\ resp' = [resp EXCEPT ![s] = Rejected(msg)]
       /\ statusDiv' = [text |-> UnexpectedText(msg), by |-> s]
  /\ pc' = [pc EXCEPT ![s] = "done"]
  /\ UNCHANGED <<req, metricsDiv, chartDiv, rendered, nextId, submitDisabled,
                 showRangeslider, maVars>>

\* await fetch(...) resolves with a response: the handler tests resp.ok and
\* awaits resp.json() on either branch
FetchResolve(s, responses) ==
  /\ pc[s] = "fetch"
  /\ \E r \in responses :
       /\ resp' = [resp EXCEPT ![s] = r]
       /\ pc' = [pc EXCEPT ![s] = IF r.ok THEN "json" ELSE "errjson"]
  /\ UNCHANGED <<req, statusDiv, metricsDiv, chartDiv, rendered, nextId,
                 submitDisabled, showRangeslider, maVars>>

\* the non-ok branch after await resp.json().catch(() => ({})): a body that
\* does not parse gives {}; err.error of the parsed value null throws, and
\* the catch block writes the status
ErrorBranch(s) ==
  /\ pc[s] = "errjson"
  /\ statusDiv' =
       [text |-> IF resp[s].body.kind = "null"
                 THEN UnexpectedText(NullPropertyMessage)
                 ELSE ErrorText(resp[s].body.error, resp[s].statusText),
        by |-> s]
  /\ pc' = [pc EXCEPT ![s] = "done"]
  /\ UNCHANGED <<req, resp, metricsDiv, chartDiv, rendered, nextId,
                 submitDisabled, showRangeslider, maVars>>

\* the ok branch after await resp.json(): a body that does not parse throws
\* at the await; the parsed value null throws at data.ticker, after the
\* status was written; otherwise status, metrics and chart are written
OkBranch(s) ==
  /\ pc[s] = "json"
  /\ LET body == resp[s].body IN
       IF body.kind = "invalid"
       THEN /\ statusDiv' = [text |-> UnexpectedText(SyntaxErrorMessage), by |-> s]
            /\ UNCHANGED <<metricsDiv, chartDiv, rendered>>
       ELSE IF body.kind = "null"
       THEN /\ statusDiv' = [text |-> UnexpectedText(NullPropertyMessage), by |-> s]
            /\ UNCHANGED <<metricsDiv, chartDiv, rendered>>
       ELSE /\ statusDiv' = [text |-> CompleteText, by |-> s]
            /\ metricsDiv' = [text |-> MetricsText(body.data), by |-> s]
            /\ chartDiv' = Plot(s, body.data)
            /\ rendered' = rendered \cup {s}
  /\ pc' = [pc EXCEPT ![s] = "done"]
  /\ UNCHANGED <<req, resp, nextId, submitDisabled, showRangeslider, maVars>>

\* the user flips the range-slider display toggle
ToggleRangeslider ==
  /\ showRangeslider' = ~showRangeslider
  /\ UNCHANGED <<pc, req, resp, statusDiv, metricsDiv, chartDiv, rendered,
                 nextId, submitDisabled, maVars>>

\* a direct call of movingAverage
CallMovingAverage ==
  /\ ~maRes.done
  /\ maRes' = [done |-> TRUE, val |-> movingAverage(maArr, maWindow)]
  /\ UNCHANGED <<maArr, maWindow, handlerVars>>

----------------------------------------------------------------------------
(* Specifications *)

\* overlapping submissions: up to MaxSubmits submit events, any resolution
\* order
Next ==
  \/ Submit({PlainForm}, MaxSubmits)
  \/ \E s \in Subs : FetchReject(s)
  \/ \E s \in Subs : FetchResolve(s, OverlapResponses)
  \/ \E s \in Subs : ErrorBranch(s)
  \/ \E s \in Subs : OkBranch(s)

Spec == Init /\ [][Next]_vars

\* one submission, every success body of ComposeData, the toggle flipped at
\* any time
NextCompose ==
  \/ Submit({PlainForm}, 1)
  \/ ToggleRangeslider
  \/ FetchResolve(1, ComposeResponses)
  \/ OkBranch(1)

SpecCompose == Init /\ [][NextCompose]_vars

\* the form: every text of FieldTexts in the three numeric fields
NextForm ==
  \/ Submit(AllForms, 1)
  \/ FetchReject(1)

SpecForm == Init /\ [][NextForm]_vars

\* movingAverage called on every arr and window within the bounds
InitMA ==
  /\ pc = [s \in Subs |-> "idle"]
  /\ req = [s \in Subs |-> [form |-> NoForm, body |-> NoBody]]
  /\ resp = [s \in Subs |-> NoResponse]
  /\ statusDiv = [text |-> EmptyText, by |-> 0]
  /\ metricsDiv = [text |-> EmptyText, by |-> 0]
  /\ chartDiv = ClearedChart(0)
  /\ rendered = {}
  /\ nextId = 1
  /\ submitDisabled = FALSE
  /\ showRangeslider = TRUE
  /\ maArr \in SeqsUpTo((0 - MaxAbs)..MaxAbs, MaxArrLen)
  /\ maWindow \in 1..MaxWindow
  /\ maRes = [done |-> FALSE, val |-> <<>>]

NextMA == CallMovingAverage

SpecMA == InitMA /\ [][NextMA]_vars

----------------------------------------------------------------------------
(* Properties *)

\* the success body from which the chart now shown was drawn
ChartData == resp[chartDiv.by].body.data

TraceNames == [i \in 1..Len(chartDiv.traces) |-> chartDiv.traces[i].name]

HasFutureTrace ==
  \E i \in 1..Len(chartDiv.traces) : chartDiv.traces[i].mode = "lines+markers"

\* the mean of v[lo..hi] (0-based, inclusive) as a fraction
MeanOf(v, lo, hi) == <<SumSeq(SubSeq(v, lo + 1, hi + 1)), hi - lo + 1>>

\* C1: movingAverage(v, w) has the length of v, and its element i is the
\* mean of v[0..i] when i < w and the mean of v[i-w+1..i] when i >= w; for
\* the empty v the result is empty.
C1_MovingAverageIsWindowMean ==
  maRes.done =>
    /\ Len(maRes.val) = Len(maArr)
    /\ \A i \in 0..(Len(maArr) - 1) :
         FracEq(maRes.val[i + 1],
                MeanOf(maArr, IF i < maWindow THEN 0 ELSE i - maWindow + 1, i))

\* a call whose array is longer than the window, so that both cases occur,
\* and whose last element is not the mean of the whole array
C1_Witness ==
  /\ maRes.done
  /\ Len(maArr) > maWindow
  /\ ~FracEq(maRes.val[Len(maArr)], MeanOf(maArr, 0, Len(maArr) - 1))

\* C2 (as stated): the trace list holds a future series if and only if both
\* future_dates and future_preds are present and non-empty.
C2_FutureIffPresentAndNonEmpty ==
  chartDiv.drawn =>
    (HasFutureTrace <=>
       /\ ChartData.future_dates.present
       /\ ChartData.future_preds.present
       /\ Len(ChartData.future_dates.val) > 0
       /\ Len(ChartData.future_preds.val) > 0)

\* C3: the trace list has 2 to 4 entries in the order actual, recent
\* markers, predicted, future; actual and predicted are always there, the
\* recent markers if and only if they are enabled and actual is non-empty.
C3_TraceOrder ==
  chartDiv.drawn =>
    LET base == <<<<"Actual (Test)">>>>
                \o (IF SHOW_RECENT_MARKERS /\ Len(OrEmpty(ChartData.actual)) > 0
                    THEN <<<<"Recent (Markers)">>>> ELSE <<>>)
                \o <<<<"Predicted (Test)">>>>
        n == Len(chartDiv.traces)
    IN  /\ n \in 2..4
        /\ n \in {Len(base), Len(base) + 1}
        /\ SubSeq(TraceNames, 1, Len(base)) = base
        /\ n = Len(base) + 1 => chartDiv.traces[n].mode = "lines+markers"

\* a chart drawn from a body without actual and without predicted, with a
\* future series: three entries, no recent markers
C3_Witness ==
  /\ chartDiv.drawn
  /\ ~ChartData.actual.present
  /\ ~ChartData.predicted.present
  /\ Len(chartDiv.traces) = 3

\* C4: the y values of the predicted series are the raw predicted array when
\* smoothing is off and movingAverage(predicted, 3) when it is on, the empty
\* array included.
C4_PredictedValues ==
  chartDiv.drawn =>
    LET raw == MapNumber(OrEmpty(ChartData.predicted))
        want == IF USE_SMOOTH_PREDICTED THEN movingAverage(raw, 3)
                ELSE Fracs(raw)
    IN  /\ \E i \in 1..Len(chartDiv.traces) :
             chartDiv.traces[i].name = <<"Predicted (Test)">>
        /\ \A i \in 1..Len(chartDiv.traces) :
             chartDiv.traces[i].name = <<"Predicted (Test)">>
               => chartDiv.traces[i].y = want

\* a chart whose predicted array is longer than the window and is changed by
\* the smoothing
C4_Witness ==
  /\ chartDiv.drawn
  /\ Len(OrEmpty(ChartData.predicted)) > SMOOTH_WINDOW
  /\ \E i \in 1..Len(chartDiv.traces) :
       /\ chartDiv.traces[i].name = <<"Predicted (Test)">>
       /\ chartDiv.traces[i].y # Fracs(MapNumber(OrEmpty(ChartData.predicted)))

C6_BestMessage(r) ==
  IF r.body.error.present /\ r.body.error.val # "" THEN <<r.body.error.val>>
  ELSE IF r.statusText # "" THEN <<r.statusText>>
  ELSE IF r.body.error.present THEN <<"{\"error\":\"", r.body.error.val, "\"}">>
  ELSE <<"{}">>

\* C6 (as stated): a submission whose call returned a non-2xx status shows
\* "Error: " and the best message, never calls the renderer, and leaves
\* metrics and chart as it cleared them.
C6_NonOkShowsErrorText ==
  \A s \in Subs :
    (pc[s] = "done" /\ resp[s].kind = "http" /\ ~resp[s].ok) =>
      /\ s \notin rendered
      /\ statusDiv.by = s => statusDiv.text = <<"Error: ">> \o C6_BestMessage(resp[s])
      /\ metricsDiv.by = s => metricsDiv.text = EmptyText
      /\ chartDiv.by = s => ~chartDiv.drawn

\* C7 (as stated): while the call of a submission is unresolved the submit
\* control is disabled and the running status is shown; once the handler is
\* through, the control is enabled and the status it wrote is a final text.
C7_BusyThenReleased ==
  \A s \in Subs :
    /\ pc[s] = "fetch" => submitDisabled
    /\ (pc[s] = "fetch" /\ statusDiv.by = s) => statusDiv.text = StartingText
    /\ pc[s] = "done" => ~submitDisabled
    /\ (pc[s] = "done" /\ statusDiv.by = s) => statusDiv.text # StartingText

\* C8 (as stated): at most one prediction request is in flight.
C8_AtMostOneInFlight ==
  Cardinality({s \in Subs : pc[s] = "fetch"}) <= 1

\* C9 (as stated): a numeric field that is empty or not a number is sent as
\* its default (lookback 60, epochs 10, future_days 30), and the body never
\* carries null for lookback, epochs or future_days.
C9_DefaultsInBody ==
  \A s \in Subs :
    pc[s] # "idle" =>
      LET f == req[s].form
          b == req[s].body
      IN  /\ parseInt(f.lookback).nan => b.lookback = JNum(60)
          /\ parseInt(f.epochs).nan => b.epochs = JNum(10)
          /\ parseInt(f.future_days).nan => b.future_days = JNum(30)
          /\ JNull \notin {b.lookback, b.epochs, b.future_days}

\* C10 (as stated): once every issued request is through, status, metrics
\* and chart all come from the most recent submission.
C10_AllFromLatest ==
  (nextId > 1 /\ \A s \in 1..(nextId - 1) : pc[s] = "done") =>
    /\ statusDiv.by = nextId - 1
    /\ metricsDiv.by = nextId - 1
    /\ chartDiv.by = nextId - 1

====
